---- MODULE Spec2Model ----
(***************************************************************************)
(* A model of the LeetCode helper library                                  *)
(*   src/.github/leetcode-runner/helpers/python/leetcode_helper.py         *)
(* and of the sample solution src/sample/two_sum.py.                       *)
(*                                                                         *)
(* Python values are tagged tuples: <<"int", n>>, <<"float", lexeme>>,     *)
(* <<"str", chars>>, <<"bool", b>>, <<"list", elems>>, <<"null">>, and     *)
(* <<"raise", kind>> for a call that ends in an exception.  A text is a    *)
(* sequence of characters, each character a one-character string; the     *)
(* character U+00B2 (SUPERSCRIPT TWO) is written "U+00B2".  Objects live   *)
(* in a heap, a sequence of node records; a reference is an index into it  *)
(* and 0 is Python's None reference.                                       *)
(***************************************************************************)
EXTENDS Integers, Sequences, FiniteSets, TLC

VARIABLES pc, arr, heap, head, root, current, queue, i, j, result,
          s, type_hint, params, current_param, bracket_depth,
          nums, target, value

vars == <<pc, arr, heap, head, root, current, queue, i, j, result,
          s, type_hint, params, current_param, bracket_depth,
          nums, target, value>>

(***************************************************************************)
(* Bounds of the model.                                                    *)
(***************************************************************************)
MaxListLen == 3
MaxTreeLen == 4
MaxNodes == 3
MaxLineLen == 4
MaxTextLen == 4
MaxNums == 3

(***************************************************************************)
(* Values.                                                                 *)
(***************************************************************************)
IntV(n) == <<"int", n>>
FloatV(lexeme) == <<"float", lexeme>>
StrV(chars) == <<"str", chars>>
BoolV(b) == <<"bool", b>>
ListV(elems) == <<"list", elems>>
None == <<"null">>
Raise(kind) == <<"raise", kind>>

SeqsUpTo(S, n) == UNION {[1..k -> S] : k \in 0..n}

\* arr[k] with Python's 0-based index
At(xs, k) == xs[k + 1]

Last(xs) == xs[Len(xs)]
Front(xs) == SubSeq(xs, 1, Len(xs) - 1)

(***************************************************************************)
(* class ListNode, list_to_linked_list, linked_list_to_list                *)
(***************************************************************************)
ListNode(val) == [val |-> val, next |-> 0]

\* a plausible slip: the new node is linked but `current` is not advanced
LinkAfterNoAdvance(h, cur, val) ==
    [heap |-> Append([h EXCEPT ![cur].next = Len(h) + 1], ListNode(val)),
     current |-> cur]

\* loop body of list_to_linked_list:
\*   current.next = ListNode(val); current = current.next
LinkAfter(h, cur, val) ==
    [heap |-> Append([h EXCEPT ![cur].next = Len(h) + 1], ListNode(val)),
     current |-> Len(h) + 1]

\* list_to_linked_list, entry: `if not arr: return None`, else the head node
LL_Enter ==
    /\ pc = "ll_start"
    /\ IF arr = <<>>
       THEN /\ head' = 0
            /\ pc' = "ll_built"
            /\ UNCHANGED <<heap, current, i>>
       ELSE /\ heap' = <<ListNode(At(arr, 0))>>
            /\ head' = 1
            /\ current' = 1
            /\ i' = 1
            /\ pc' = "ll_build"
    /\ UNCHANGED <<arr, root, queue, j, result, s, type_hint, params,
                   current_param, bracket_depth, nums, target, value>>

\* one iteration of `for val in arr[1:]`; i is the iterator's position in arr
LL_BuildStep ==
    /\ pc = "ll_build"
    /\ i < Len(arr)
    /\ LET st == LinkAfter(heap, current, At(arr, i))
       IN /\ heap' = st.heap
          /\ current' = st.current
    /\ i' = i + 1
    /\ UNCHANGED <<pc, arr, head, root, queue, j, result, s, type_hint, params,
                   current_param, bracket_depth, nums, target, value>>

\* the for loop is exhausted: `return head`
LL_BuildReturn ==
    /\ pc = "ll_build"
    /\ ~(i < Len(arr))
    /\ pc' = "ll_built"
    /\ UNCHANGED <<arr, heap, head, root, current, queue, i, j, result, s,
                   type_hint, params, current_param, bracket_depth, nums,
                   target, value>>

\* linked_list_to_list, entry: result = []; current = head
LL_WalkEnter ==
    /\ pc = "ll_built"
    /\ result' = <<>>
    /\ current' = head
    /\ pc' = "ll_walk"
    /\ UNCHANGED <<arr, heap, head, root, queue, i, j, s, type_hint, params,
                   current_param, bracket_depth, nums, target, value>>

\* one iteration of `while current:` (a ListNode is always truthy)
LL_WalkStep ==
    /\ pc = "ll_walk"
    /\ current # 0
    /\ result' = Append(result, heap[current].val)
    /\ current' = heap[current].next
    /\ UNCHANGED <<pc, arr, heap, head, root, queue, i, j, s, type_hint, params,
                   current_param, bracket_depth, nums, target, value>>

\* `return result`
LL_WalkReturn ==
    /\ pc = "ll_walk"
    /\ current = 0
    /\ pc' = "ll_done"
    /\ UNCHANGED <<arr, heap, head, root, current, queue, i, j, result, s,
                   type_hint, params, current_param, bracket_depth, nums,
                   target, value>>

ListVals == {IntV(0), IntV(1), IntV(-1)}

InitLinkedList ==
    /\ pc = "ll_start"
    /\ arr \in SeqsUpTo(ListVals, MaxListLen)
    /\ heap = <<>> /\ head = 0 /\ root = 0 /\ current = 0
    /\ queue = <<>> /\ i = 0 /\ j = 0 /\ result = <<>>
    /\ s = <<>> /\ type_hint = "auto" /\ params = <<>>
    /\ current_param = <<>> /\ bracket_depth = 0
    /\ nums = <<>> /\ target = 0 /\ value = None

NextLinkedList ==
    \/ LL_Enter
    \/ LL_BuildStep
    \/ LL_BuildReturn
    \/ LL_WalkEnter
    \/ LL_WalkStep
    \/ LL_WalkReturn

SpecLinkedList == InitLinkedList /\ [][NextLinkedList]_vars

\* C1: converting a sequence of integers to a linked list and back gives the
\* same sequence: same elements, same order, same count (empty included).
C1_LinkedListRoundTrip == pc = "ll_done" => result = arr

C1_Witness ==
    /\ pc = "ll_done"
    /\ Len(arr) = 3
    /\ arr[1] # arr[2]
    /\ arr[2] # arr[3]
    /\ result = arr

(***************************************************************************)
(* class TreeNode, list_to_tree                                            *)
(***************************************************************************)
TreeNode(val) == [val |-> val, left |-> 0, right |-> 0]

\* node.left = <id> / node.right = <id>
SetChild(h, node, side, id) ==
    IF side = "left" THEN [h EXCEPT ![node].left = id]
                     ELSE [h EXCEPT ![node].right = id]

\* a plausible slip: `i += 1` moved inside `if arr[i] is not None`
ChildSlotNoSkip(xs, st, node, side) ==
    IF st.i < Len(xs)
    THEN IF At(xs, st.i) # None
         THEN LET id == Len(st.heap) + 1
              IN [heap |-> Append(SetChild(st.heap, node, side, id),
                                  TreeNode(At(xs, st.i))),
                  queue |-> Append(st.queue, id),
                  i |-> st.i + 1]
         ELSE st
    ELSE st

\* one child slot of list_to_tree's loop body (the left one, then the right):
\*   if i < len(arr):
\*       if arr[i] is not None: node.<side> = TreeNode(arr[i]); queue.append(..)
\*       i += 1
ChildSlot(xs, st, node, side) ==
    IF st.i < Len(xs)
    THEN IF At(xs, st.i) # None
         THEN LET id == Len(st.heap) + 1
              IN [heap |-> Append(SetChild(st.heap, node, side, id),
                                  TreeNode(At(xs, st.i))),
                  queue |-> Append(st.queue, id),
                  i |-> st.i + 1]
         ELSE [st EXCEPT !.i = st.i + 1]
    ELSE st

\* the loop body of list_to_tree: node = queue.pop(0), left slot, right slot
TreeLoopBody(xs, st) ==
    LET node == Head(st.queue)
        popped == [st EXCEPT !.queue = Tail(st.queue)]
    IN ChildSlot(xs, ChildSlot(xs, popped, node, "left"), node, "right")

\* list_to_tree, entry: `if not arr or arr[0] is None: return None`, else root
LT_Enter ==
    /\ pc = "lt_start"
    /\ IF arr = <<>> \/ At(arr, 0) = None
       THEN /\ root' = 0
            /\ pc' = "lt_built"
            /\ UNCHANGED <<heap, queue, i>>
       ELSE /\ heap' = <<TreeNode(At(arr, 0))>>
            /\ root' = 1
            /\ queue' = <<1>>
            /\ i' = 1
            /\ pc' = "lt_loop"
    /\ UNCHANGED <<arr, head, current, j, result, s, type_hint, params,
                   current_param, bracket_depth, nums, target, value>>

\* one iteration of `while queue and i < len(arr)`
LT_Iter ==
    /\ pc = "lt_loop"
    /\ queue # <<>> /\ i < Len(arr)
    /\ LET st == TreeLoopBody(arr, [heap |-> heap, queue |-> queue, i |-> i])
       IN /\ heap' = st.heap
          /\ queue' = st.queue
          /\ i' = st.i
    /\ UNCHANGED <<pc, arr, head, root, current, j, result, s, type_hint,
                   params, current_param, bracket_depth, nums, target, value>>

\* the while condition is false: `return root`
LT_Return ==
    /\ pc = "lt_loop"
    /\ ~(queue # <<>> /\ i < Len(arr))
    /\ pc' = "lt_built"
    /\ UNCHANGED <<arr, heap, head, root, current, queue, i, j, result, s,
                   type_hint, params, current_param, bracket_depth, nums,
                   target, value>>

(***************************************************************************)
(* tree_to_list                                                            *)
(***************************************************************************)
\* a plausible slip: only the children that exist are enqueued
VisitSkipNone(h, st) ==
    LET node == Head(st.queue)
        kids == SelectSeq(<<h[node].left, h[node].right>>, LAMBDA c : c # 0)
    IN IF node # 0
       THEN [result |-> Append(st.result, h[node].val),
             queue |-> Tail(st.queue) \o kids]
       ELSE [result |-> Append(st.result, None), queue |-> Tail(st.queue)]

\* the loop body of tree_to_list: node = queue.pop(0); a node appends its
\* value and enqueues both children, a None appends None
Visit(h, st) ==
    LET node == Head(st.queue)
    IN IF node # 0
       THEN [result |-> Append(st.result, h[node].val),
             queue |-> Tail(st.queue) \o <<h[node].left, h[node].right>>]
       ELSE [result |-> Append(st.result, None), queue |-> Tail(st.queue)]

\* a plausible slip: the trailing Nones are never trimmed
TrimNever(res) == FALSE

\* the condition of `while result and result[-1] is None`
TrimAgain(res) == res # <<>> /\ Last(res) = None

\* tree_to_list, entry: `if not root: return []`, else result, queue
TL_Enter ==
    /\ pc = "lt_built"
    /\ result' = <<>>
    /\ IF root = 0
       THEN pc' = "tl_done" /\ UNCHANGED queue
       ELSE pc' = "tl_loop" /\ queue' = <<root>>
    /\ UNCHANGED <<arr, heap, head, root, current, i, j, s, type_hint, params,
                   current_param, bracket_depth, nums, target, value>>

\* one iteration of `while queue`
TL_Iter ==
    /\ pc = "tl_loop"
    /\ queue # <<>>
    /\ LET st == Visit(heap, [result |-> result, queue |-> queue])
       IN /\ result' = st.result
          /\ queue' = st.queue
    /\ UNCHANGED <<pc, arr, heap, head, root, current, i, j, s, type_hint,
                   params, current_param, bracket_depth, nums, target, value>>

\* the queue is empty: on to the trimming loop
TL_Traversed ==
    /\ pc = "tl_loop"
    /\ queue = <<>>
    /\ pc' = "tl_trim"
    /\ UNCHANGED <<arr, heap, head, root, current, queue, i, j, result, s,
                   type_hint, params, current_param, bracket_depth, nums,
                   target, value>>

\* one iteration of the trimming loop: result.pop()
TL_TrimStep ==
    /\ pc = "tl_trim"
    /\ TrimAgain(result)
    /\ result' = Front(result)
    /\ UNCHANGED <<pc, arr, heap, head, root, current, queue, i, j, s, type_hint,
                   params, current_param, bracket_depth, nums, target, value>>

\* `return result`
TL_Return ==
    /\ pc = "tl_trim"
    /\ ~TrimAgain(result)
    /\ pc' = "tl_done"
    /\ UNCHANGED <<arr, heap, head, root, current, queue, i, j, result, s,
                   type_hint, params, current_param, bracket_depth, nums,
                   target, value>>

(***************************************************************************)
(* list_to_tree followed by tree_to_list, on level-order sequences         *)
(***************************************************************************)
TreeVals == {IntV(0), IntV(1), None}

\* the level-order sequence of spec.md section 8
ExampleTree ==
    <<IntV(3), IntV(9), IntV(20), None, None, IntV(15), IntV(7)>>

InitTree ==
    /\ pc = "lt_start"
    /\ arr \in SeqsUpTo(TreeVals, MaxTreeLen) \cup {ExampleTree}
    /\ heap = <<>> /\ head = 0 /\ root = 0 /\ current = 0
    /\ queue = <<>> /\ i = 0 /\ j = 0 /\ result = <<>>
    /\ s = <<>> /\ type_hint = "auto" /\ params = <<>>
    /\ current_param = <<>> /\ bracket_depth = 0
    /\ nums = <<>> /\ target = 0 /\ value = None

NextTree ==
    \/ LT_Enter
    \/ LT_Iter
    \/ LT_Return
    \/ TL_Enter
    \/ TL_Iter
    \/ TL_Traversed
    \/ TL_TrimStep
    \/ TL_Return

\* straight-line code runs on until it returns
SpecTree == InitTree /\ [][NextTree]_vars /\ WF_vars(NextTree)

\* the number of non-null elements among the first n elements of xs
NonNullBefore(xs, n) ==
    Cardinality({k \in 0..(n - 1) : k < Len(xs) /\ At(xs, k) # None})

NoTrailingNull(xs) == xs = <<>> \/ Last(xs) # None

\* a valid tree shape: the first element is a node, and every later element
\* is a child slot of a node that exists (slots 2k+1 and 2k+2 belong to the
\* k-th non-null element)
ValidShape(xs) ==
    /\ xs # <<>>
    /\ At(xs, 0) # None
    /\ \A p \in 1..(Len(xs) - 1) : NonNullBefore(xs, p) > (p - 1) \div 2

\* C2: a level-order sequence with no trailing null and a valid tree shape
\* (or the empty sequence) comes back unchanged from
\* tree_to_list(list_to_tree(xs)); [3,9,20,null,null,15,7] does.
C2_TreeRoundTrip ==
    (pc = "tl_done" /\ NoTrailingNull(arr) /\ (arr = <<>> \/ ValidShape(arr)))
        => result = arr

C2_Witness ==
    /\ pc = "tl_done"
    /\ arr = ExampleTree
    /\ ValidShape(arr) /\ NoTrailingNull(arr)
    /\ result = ExampleTree
    /\ Len(result) = 7

Min(a, b) == IF a < b THEN a ELSE b

\* the reference of the node made from the element at index p: nodes are
\* numbered in creation order, which is index order
NodeOf(xs, p) == NonNullBefore(xs, p + 1)

\* the child reference the slot at index p gives
SlotChild(xs, p) ==
    IF p < Len(xs) /\ At(xs, p) # None THEN NodeOf(xs, p) ELSE 0

C8_Built ==
    pc = "lt_built" =>
        /\ root = 0 <=> (arr = <<>> \/ At(arr, 0) = None)
        /\ root = 0 => heap = <<>>
        /\ root # 0 =>
            /\ root = 1
            /\ heap[1].val = At(arr, 0)
            /\ \A n \in 1..Len(heap) :
                /\ heap[n].left = SlotChild(arr, 2 * (n - 1) + 1)
                /\ heap[n].right = SlotChild(arr, 2 * (n - 1) + 2)
                /\ heap[n].left # 0 =>
                       heap[heap[n].left].val = At(arr, 2 * (n - 1) + 1)
                /\ heap[n].right # 0 =>
                       heap[heap[n].right].val = At(arr, 2 * (n - 1) + 2)
                /\ heap[n].val # None
                /\ n > 1 => \E m \in 1..Len(heap) :
                                heap[m].left = n \/ heap[m].right = n
            \* what lies after the last node's slots is not read
            /\ i = Min(Len(arr), 2 * Len(heap) + 1)

C8_Cursor ==
    pc = "lt_loop" =>
        /\ i <= Len(arr)
        /\ \A n \in 1..Len(queue) : queue[n] \in 1..Len(heap)

\* C8: list_to_tree returns None for an empty sequence or a leading null;
\* otherwise the k-th node created gets the elements at 2k+1 and 2k+2 as its
\* left and right child slots when they exist, a null making no node but
\* taking its slot; the cursor stays within the sequence, elements after the
\* last node's slots are ignored, and the loop terminates.
C8_ListToTree == [](C8_Built /\ C8_Cursor) /\ <>(pc = "lt_built")

C8_Witness ==
    /\ pc = "lt_built"
    /\ Len(heap) = 3
    /\ heap[1].left = 0 /\ heap[1].right = 2
    /\ heap[2].left = 3
    /\ At(arr, 1) = None

(***************************************************************************)
(* tree_to_list on arbitrary binary trees                                  *)
(***************************************************************************)
NodeVals == {IntV(0), IntV(1)}

\* the child slots of h that hold None
FreeSlots(h) ==
    {sl \in (1..Len(h)) \X {"left", "right"} :
        IF sl[2] = "left" THEN h[sl[1]].left = 0 ELSE h[sl[1]].right = 0}

\* every binary tree of n >= 1 nodes with values in NodeVals, as the caller
\* builds it with TreeNode(val, left, right); node 1 is the root
RECURSIVE TreesOfSize(_)
TreesOfSize(n) ==
    IF n = 1
    THEN {<<TreeNode(v)>> : v \in NodeVals}
    ELSE UNION {{Append(SetChild(h, sl[1], sl[2], n), TreeNode(v)) :
                    sl \in FreeSlots(h), v \in NodeVals} :
                h \in TreesOfSize(n - 1)}

InitTreeToList ==
    /\ pc = "lt_built"
    /\ \/ heap = <<>> /\ root = 0
       \/ \E n \in 1..MaxNodes : heap \in TreesOfSize(n) /\ root = 1
    /\ arr = <<>> /\ head = 0 /\ current = 0
    /\ queue = <<>> /\ i = 0 /\ j = 0 /\ result = <<>>
    /\ s = <<>> /\ type_hint = "auto" /\ params = <<>>
    /\ current_param = <<>> /\ bracket_depth = 0
    /\ nums = <<>> /\ target = 0 /\ value = None

NextTreeToList ==
    \/ TL_Enter
    \/ TL_Iter
    \/ TL_Traversed
    \/ TL_TrimStep
    \/ TL_Return

SpecTreeToList == InitTreeToList /\ [][NextTreeToList]_vars

\* the nodes of the tree under reference n
RECURSIVE NodesUnder(_, _)
NodesUnder(h, n) ==
    IF n = 0 THEN {}
    ELSE {n} \cup NodesUnder(h, h[n].left) \cup NodesUnder(h, h[n].right)

\* the child references, None included, of the nodes of one level, in order
RECURSIVE ChildrenOf(_, _)
ChildrenOf(h, level) ==
    IF level = <<>> THEN <<>>
    ELSE (IF Head(level) = 0 THEN <<>>
          ELSE <<h[Head(level)].left, h[Head(level)].right>>)
         \o ChildrenOf(h, Tail(level))

\* the tree level by level: the references of one level, then those below
RECURSIVE LevelOrder(_, _)
LevelOrder(h, level) ==
    IF level = <<>> THEN <<>>
    ELSE level \o LevelOrder(h, ChildrenOf(h, level))

ValueAt(h, n) == IF n = 0 THEN None ELSE h[n].val

\* xs up to its last non-null element
WithoutTrailingNulls(xs) ==
    LET keep == {k \in 1..Len(xs) : xs[k] # None}
    IN SubSeq(xs, 1, IF keep = {} THEN 0
                     ELSE CHOOSE k \in keep : \A m \in keep : m <= k)

NonNulls(xs) == {k \in 1..Len(xs) : xs[k] # None}

\* while traversing, every visited node has put exactly two entries on the
\* queue and a visited None has put none
C9_Traversing ==
    pc = "tl_loop" =>
        Len(result) + Len(queue) = 1 + 2 * Cardinality(NonNulls(result))

C9_Returned ==
    pc = "tl_done" =>
        /\ root = 0 => result = <<>>
        /\ root # 0 =>
            /\ result # <<>>
            /\ result[1] = heap[root].val
            /\ Last(result) # None
            /\ LET order == LevelOrder(heap, <<root>>)
               IN result = WithoutTrailingNulls(
                              [k \in 1..Len(order) |-> ValueAt(heap, order[k])])
            /\ Cardinality(NonNulls(result)) =
                   Cardinality(NodesUnder(heap, root))

\* C9: tree_to_list gives [] for a null root; otherwise the values in
\* breadth-first order starting with the root's, a null for each absent child
\* of a visited node that some non-null entry follows, no expansion of a null,
\* no null at the end, and as many non-null entries as the tree has nodes.
C9_TreeToList == C9_Traversing /\ C9_Returned

C9_Witness ==
    /\ pc = "tl_done"
    /\ Len(heap) = 3
    /\ heap[1].left = 0 /\ heap[1].right = 2
    /\ heap[2].left = 3 /\ heap[2].right = 0
    /\ result = <<heap[1].val, None, heap[2].val, heap[3].val>>

(***************************************************************************)
(* Texts.  Characters outside the sets below (a backslash, "{", "+" ...)   *)
(* do not occur in the texts of this model.                                *)
(***************************************************************************)
\* the whitespace str.strip() removes and json skips
Whitespace == {" ", "\t", "\n", "\r"}

RECURSIVE lstrip(_)
lstrip(cs) ==
    IF cs # <<>> /\ Head(cs) \in Whitespace THEN lstrip(Tail(cs)) ELSE cs

RECURSIVE rstrip(_)
rstrip(cs) ==
    IF cs # <<>> /\ Last(cs) \in Whitespace THEN rstrip(Front(cs)) ELSE cs

\* str.strip()
strip(cs) == rstrip(lstrip(cs))

\* str.startswith / str.endswith with a one-character argument
startswith(cs, c) == cs # <<>> /\ Head(cs) = c
endswith(cs, c) == cs # <<>> /\ Last(cs) = c

DecimalDigits == <<"0", "1", "2", "3", "4", "5", "6", "7", "8", "9">>

\* a character int() and json read as a decimal digit
IsDecimal(c) == \E d \in 1..Len(DecimalDigits) : DecimalDigits[d] = c

DigitValue(c) == (CHOOSE d \in 1..Len(DecimalDigits) : DecimalDigits[d] = c) - 1

\* a character str.isdigit() accepts: the decimal digits and the digits that
\* are not decimal, as SUPERSCRIPT TWO
IsDigitChar(c) == IsDecimal(c) \/ c = "U+00B2"

\* str.isdigit(): not empty and digits only
isdigit(cs) == cs # <<>> /\ \A k \in 1..Len(cs) : IsDigitChar(cs[k])

RECURSIVE DecimalValue(_)
DecimalValue(cs) ==
    IF cs = <<>> THEN 0
    ELSE 10 * DecimalValue(Front(cs)) + DigitValue(Last(cs))

UpperCase == <<"A", "B", "C", "D", "E", "F", "G", "H", "I", "J", "K", "L", "M",
               "N", "O", "P", "Q", "R", "S", "T", "U", "V", "W", "X", "Y", "Z">>
LowerCase == <<"a", "b", "c", "d", "e", "f", "g", "h", "i", "j", "k", "l", "m",
               "n", "o", "p", "q", "r", "s", "t", "u", "v", "w", "x", "y", "z">>

LowerChar(c) ==
    IF \E k \in 1..Len(UpperCase) : UpperCase[k] = c
    THEN LowerCase[CHOOSE k \in 1..Len(UpperCase) : UpperCase[k] = c]
    ELSE c

\* str.lower()
lower(cs) == [k \in 1..Len(cs) |-> LowerChar(cs[k])]

\* digits with single underscores between them
IsDigitPart(cs) ==
    /\ cs # <<>>
    /\ \A k \in 1..Len(cs) : IsDecimal(cs[k]) \/ cs[k] = "_"
    /\ IsDecimal(Head(cs)) /\ IsDecimal(Last(cs))
    /\ \A k \in 1..(Len(cs) - 1) : ~(cs[k] = "_" /\ cs[k + 1] = "_")

Unsigned(cs) == IF startswith(cs, "-") \/ startswith(cs, "+") THEN Tail(cs) ELSE cs

\* int(text): optional sign, decimal digits; a ValueError otherwise
int(cs) ==
    LET t == strip(cs)
        body == Unsigned(t)
        magnitude == DecimalValue(SelectSeq(body, LAMBDA c : c # "_"))
    IN IF IsDigitPart(body)
       THEN IntV(IF startswith(t, "-") THEN 0 - magnitude ELSE magnitude)
       ELSE Raise("ValueError")

IsNumber(cs) ==
    \/ IsDigitPart(cs)
    \/ \E k \in 1..Len(cs) :
        /\ cs[k] = "."
        /\ LET whole == SubSeq(cs, 1, k - 1)
               frac == SubSeq(cs, k + 1, Len(cs))
           IN \/ IsDigitPart(frac) /\ (whole = <<>> \/ IsDigitPart(whole))
              \/ frac = <<>> /\ IsDigitPart(whole)

IsFloatNumber(cs) ==
    \/ IsNumber(cs)
    \/ \E k \in 1..Len(cs) :
        /\ cs[k] \in {"e", "E"}
        /\ IsNumber(SubSeq(cs, 1, k - 1))
        /\ IsDigitPart(Unsigned(SubSeq(cs, k + 1, Len(cs))))

\* float(text): a float literal, inf, infinity or nan; a ValueError otherwise.
\* The float is kept as its literal.
float(cs) ==
    LET t == strip(cs)
        body == Unsigned(t)
    IN IF \/ IsFloatNumber(body)
          \/ lower(body) \in {<<"i", "n", "f">>, <<"n", "a", "n">>,
                              <<"i", "n", "f", "i", "n", "i", "t", "y">>}
       THEN FloatV(t)
       ELSE Raise("ValueError")

(***************************************************************************)
(* parse_int, parse_float, parse_string, parse_bool                        *)
(***************************************************************************)
parse_int(text) == int(strip(text))

parse_float(text) == float(strip(text))

\* s[1:-1]
Inner(cs) == SubSeq(cs, 2, Len(cs) - 1)

\* parse_string after s = s.strip()
Unquote(t) ==
    IF \/ startswith(t, "\"") /\ endswith(t, "\"")
       \/ startswith(t, "'") /\ endswith(t, "'")
    THEN StrV(Inner(t))
    ELSE StrV(t)

parse_string(text) == Unquote(strip(text))

parse_bool(text) ==
    BoolV(lower(strip(text)) \in {<<"t", "r", "u", "e">>, <<"1">>,
                                  <<"y", "e", "s">>})

(***************************************************************************)
(* json.loads, as parse_list uses it.  A scan gives [ok, val, end]: whether  *)
(* a value was read, the value, and the 0-based index after it.            *)
(***************************************************************************)
\* s[idx:idx+1]: the character at idx, or "" past the end
CharAt(cs, idx) == IF idx < Len(cs) THEN At(cs, idx) ELSE ""

\* s[idx:idx+len(lit)] == lit
LiteralAt(cs, idx, lit) ==
    /\ idx + Len(lit) <= Len(cs)
    /\ SubSeq(cs, idx + 1, idx + Len(lit)) = lit

Scanned(val, end) == [ok |-> TRUE, val |-> val, end |-> end]
NoValue(idx) == [ok |-> FALSE, val |-> None, end |-> idx]

\* the index of the first character at or after idx that is no whitespace
RECURSIVE SkipWhitespace(_, _)
SkipWhitespace(cs, idx) ==
    IF idx < Len(cs) /\ At(cs, idx) \in Whitespace
    THEN SkipWhitespace(cs, idx + 1)
    ELSE idx

\* the index of the first character at or after idx that is no decimal digit
RECURSIVE SkipDigits(_, _)
SkipDigits(cs, idx) ==
    IF idx < Len(cs) /\ IsDecimal(At(cs, idx))
    THEN SkipDigits(cs, idx + 1)
    ELSE idx

\* NUMBER_RE, (-?(?:0|[1-9]\d*))(\.\d+)?([eE][-+]?\d+)?, matched at idx,
\* group by group.  The end of the integer group from the character after
\* the sign; idx when there is no match
IntegerEnd(cs, idx, start) ==
    IF CharAt(cs, start) = "0" THEN start + 1
    ELSE IF IsDecimal(CharAt(cs, start)) THEN SkipDigits(cs, start + 1)
    ELSE idx

\* the end of the fraction group, intEnd when there is none
FractionEnd(cs, intEnd) ==
    IF CharAt(cs, intEnd) = "." /\ IsDecimal(CharAt(cs, intEnd + 1))
    THEN SkipDigits(cs, intEnd + 2)
    ELSE intEnd

\* the end of the exponent group whose digits start at expStart
ExponentDigitsEnd(cs, fracEnd, expStart) ==
    IF CharAt(cs, fracEnd) \in {"e", "E"} /\ IsDecimal(CharAt(cs, expStart))
    THEN SkipDigits(cs, expStart + 1)
    ELSE fracEnd

\* the end of the exponent group, fracEnd when there is none
ExponentEnd(cs, fracEnd) ==
    ExponentDigitsEnd(cs, fracEnd,
                      IF CharAt(cs, fracEnd + 1) \in {"+", "-"}
                      THEN fracEnd + 2 ELSE fracEnd + 1)

\* the end of the whole match, given the end of its integer group
NumberEnd(cs, intEnd) == ExponentEnd(cs, FractionEnd(cs, intEnd))

\* the end of the integer group of a match at idx, idx when there is none
MatchNumber(cs, idx) ==
    IntegerEnd(cs, idx, IF CharAt(cs, idx) = "-" THEN idx + 1 ELSE idx)

\* the index of the first '"', backslash or control character at or after idx
RECURSIVE StringChunkEnd(_, _)
StringChunkEnd(cs, idx) ==
    IF idx < Len(cs) /\ At(cs, idx) \notin {"\"", "\\", "\t", "\n", "\r"}
    THEN StringChunkEnd(cs, idx + 1)
    ELSE idx

\* the string that started at idx, given where its characters stop
StringUpTo(cs, idx, stop) ==
    IF CharAt(cs, stop) = "\""
    THEN Scanned(StrV(SubSeq(cs, idx + 1, stop)), stop + 1)
    ELSE NoValue(stop)

\* py_scanstring from the character after the opening quote; only a closing
\* quote ends a string well (the texts hold no backslash escapes)
ScanString(cs, idx) == StringUpTo(cs, idx, StringChunkEnd(cs, idx))

RECURSIVE ScanOnce(_, _)
RECURSIVE ScanArrayItems(_, _, _)

\* after an item and the whitespace behind it: "]" ends the array, "," goes on
ArrayDelimiter(cs, after, values) ==
    IF CharAt(cs, after) = "]" THEN Scanned(ListV(values), after + 1)
    ELSE IF CharAt(cs, after) = ","
         THEN ScanArrayItems(cs, SkipWhitespace(cs, after + 1), values)
         ELSE NoValue(after)

\* an item was scanned, or not ("Expecting value")
ArrayItem(cs, values, item) ==
    IF ~item.ok THEN NoValue(item.end)
    ELSE ArrayDelimiter(cs, SkipWhitespace(cs, item.end),
                        Append(values, item.val))

\* the `while True` loop of JSONArray: a value, then "]" or "," and on
ScanArrayItems(cs, idx, values) == ArrayItem(cs, values, ScanOnce(cs, idx))

\* the array whose first character that is no whitespace stands at first
ArrayFrom(cs, first) ==
    IF CharAt(cs, first) = "]" THEN Scanned(ListV(<<>>), first + 1)
    ELSE ScanArrayItems(cs, first, <<>>)

\* JSONArray from the character after "["
ScanArray(cs, idx) == ArrayFrom(cs, SkipWhitespace(cs, idx))

\* a number matched from idx to numEnd: an int when the match is its integer
\* group alone, a float otherwise
NumberValue(cs, idx, intEnd, numEnd) ==
    IF numEnd = intEnd
    THEN Scanned(int(SubSeq(cs, idx + 1, intEnd)), intEnd)
    ELSE Scanned(FloatV(SubSeq(cs, idx + 1, numEnd)), numEnd)

\* _scan_once from the number match on
ScanNumber(cs, idx, intEnd) ==
    IF intEnd # idx THEN NumberValue(cs, idx, intEnd, NumberEnd(cs, intEnd))
    ELSE IF LiteralAt(cs, idx, <<"N", "a", "N">>)
         THEN Scanned(FloatV(<<"N", "a", "N">>), idx + 3)
    ELSE IF LiteralAt(cs, idx, <<"I", "n", "f", "i", "n", "i", "t", "y">>)
         THEN Scanned(FloatV(<<"I", "n", "f", "i", "n", "i", "t", "y">>), idx + 8)
    ELSE IF LiteralAt(cs, idx, <<"-", "I", "n", "f", "i", "n", "i", "t", "y">>)
         THEN Scanned(FloatV(<<"-", "I", "n", "f", "i", "n", "i", "t", "y">>),
                      idx + 9)
    ELSE NoValue(idx)

\* scanner.py_make_scanner _scan_once
ScanOnce(cs, idx) ==
    IF CharAt(cs, idx) = "\"" THEN ScanString(cs, idx + 1)
    ELSE IF CharAt(cs, idx) = "[" THEN ScanArray(cs, idx + 1)
    ELSE IF LiteralAt(cs, idx, <<"n", "u", "l", "l">>)
         THEN Scanned(None, idx + 4)
    ELSE IF LiteralAt(cs, idx, <<"t", "r", "u", "e">>)
         THEN Scanned(BoolV(TRUE), idx + 4)
    ELSE IF LiteralAt(cs, idx, <<"f", "a", "l", "s", "e">>)
         THEN Scanned(BoolV(FALSE), idx + 5)
    ELSE ScanNumber(cs, idx, MatchNumber(cs, idx))

\* the end of decode: nothing but whitespace may follow the value
WholeText(cs, obj) ==
    IF obj.ok /\ SkipWhitespace(cs, obj.end) = Len(cs) THEN obj
    ELSE NoValue(obj.end)

\* JSONDecoder.decode: one value between whitespace and nothing after it;
\* ok is FALSE for a JSONDecodeError
json_loads(cs) == WholeText(cs, ScanOnce(cs, SkipWhitespace(cs, 0)))

\* the index of the first sep in cs, 0 when there is none
FirstIndex(cs, sep) ==
    IF \E k \in 1..Len(cs) : cs[k] = sep
    THEN CHOOSE k \in 1..Len(cs) :
            cs[k] = sep /\ \A m \in 1..(k - 1) : cs[m] # sep
    ELSE 0

\* str.split(sep)
RECURSIVE split(_, _)
split(cs, sep) ==
    LET k == FirstIndex(cs, sep)
    IN IF k = 0 THEN <<cs>>
       ELSE <<SubSeq(cs, 1, k - 1)>> \o split(SubSeq(cs, k + 1, Len(cs)), sep)

(***************************************************************************)
(* parse_list                                                              *)
(***************************************************************************)
\* [x.strip() for x in parts]
StrippedParts(parts) ==
    ListV([k \in 1..Len(parts) |-> StrV(strip(parts[k]))])

\* [x.strip() for x in s.split(',')]
CommaSeparated(cs) == StrippedParts(split(cs, ","))

\* try: return json.loads(s); except json.JSONDecodeError: the fallback
DecodedOrSplit(t, decoded) ==
    IF decoded.ok THEN decoded.val ELSE CommaSeparated(t)

\* parse_list after s = s.strip()
ParseStripped(t) ==
    IF t = <<>> THEN ListV(<<>>) ELSE DecodedOrSplit(t, json_loads(t))

parse_list(text) == ParseStripped(strip(text))

(***************************************************************************)
(* list_to_linked_list, linked_list_to_list, list_to_tree and tree_to_list *)
(* as whole calls: the loops of the actions above run to their end.  A     *)
(* node a call returns is <<class, heap, reference>>.                      *)
(***************************************************************************)
NodeV(class, h, ref) == IF ref = 0 THEN None ELSE <<class, h, ref>>

RECURSIVE LinkRest(_, _, _, _)
LinkRest(xs, k, h, cur) ==
    IF k < Len(xs)
    THEN LET st == LinkAfter(h, cur, At(xs, k))
         IN LinkRest(xs, k + 1, st.heap, st.current)
    ELSE h

list_to_linked_list(xs) ==
    IF xs = <<>> THEN None
    ELSE NodeV("ListNode", LinkRest(xs, 1, <<ListNode(At(xs, 0))>>, 1), 1)

RECURSIVE Walk(_, _, _)
Walk(h, cur, res) ==
    IF cur # 0 THEN Walk(h, h[cur].next, Append(res, h[cur].val)) ELSE res

linked_list_to_list(node) ==
    IF node = None THEN <<>> ELSE Walk(node[2], node[3], <<>>)

RECURSIVE TreeLoop(_, _)
TreeLoop(xs, st) ==
    IF st.queue # <<>> /\ st.i < Len(xs)
    THEN TreeLoop(xs, TreeLoopBody(xs, st))
    ELSE st

list_to_tree(xs) ==
    IF xs = <<>> \/ At(xs, 0) = None THEN None
    ELSE NodeV("TreeNode",
               TreeLoop(xs, [heap |-> <<TreeNode(At(xs, 0))>>,
                             queue |-> <<1>>, i |-> 1]).heap,
               1)

RECURSIVE Traverse(_, _)
Traverse(h, st) == IF st.queue # <<>> THEN Traverse(h, Visit(h, st)) ELSE st

RECURSIVE Trim(_)
Trim(res) == IF TrimAgain(res) THEN Trim(Front(res)) ELSE res

tree_to_list(node) ==
    IF node = None THEN <<>>
    ELSE Trim(Traverse(node[2], [result |-> <<>>, queue |-> <<node[3]>>]).result)

(***************************************************************************)
(* parse_linked_list, parse_tree.  parse_list may give a value that is no  *)
(* list; Python then takes a str as the sequence of its characters, stops  *)
(* at `not arr` for a falsy value and raises TypeError at arr[0] otherwise.*)
(***************************************************************************)
\* the digits before the exponent of a float literal are all 0
IsZeroLiteral(lexeme) ==
    LET e == IF FirstIndex(lexeme, "e") # 0 THEN FirstIndex(lexeme, "e")
             ELSE FirstIndex(lexeme, "E")
        mantissa == IF e = 0 THEN lexeme ELSE SubSeq(lexeme, 1, e - 1)
    IN /\ \E k \in 1..Len(mantissa) : IsDecimal(mantissa[k])
       /\ \A k \in 1..Len(mantissa) : IsDecimal(mantissa[k]) => mantissa[k] = "0"

\* bool(v)
Truthy(v) ==
    CASE v[1] = "null" -> FALSE
      [] v[1] = "bool" -> v[2]
      [] v[1] = "int" -> v[2] # 0
      [] v[1] = "float" -> ~IsZeroLiteral(v[2])
      [] v[1] \in {"str", "list"} -> v[2] # <<>>

\* the elements arr[0], arr[1], ... of a list or a str
Items(v) ==
    IF v[1] = "list" THEN v[2]
    ELSE [k \in 1..Len(v[2]) |-> StrV(<<v[2][k]>>)]

\* list_to_linked_list(arr) for whatever parse_list gave
LinkedListOf(parsed) ==
    IF ~Truthy(parsed) THEN None
    ELSE IF parsed[1] \notin {"str", "list"} THEN Raise("TypeError")
    ELSE list_to_linked_list(Items(parsed))

parse_linked_list(text) == LinkedListOf(parse_list(text))

\* list_to_tree(arr) for whatever parse_list gave
TreeOf(parsed) ==
    IF ~Truthy(parsed) THEN None
    ELSE IF parsed[1] \notin {"str", "list"} THEN Raise("TypeError")
    ELSE list_to_tree(Items(parsed))

parse_tree(text) == TreeOf(parse_list(text))

(***************************************************************************)
(* parse_input                                                             *)
(***************************************************************************)
\* s.isdigit() or (s.startswith('-') and s[1:].isdigit())
IsIntegerText(t) == isdigit(t) \/ (startswith(t, "-") /\ isdigit(Tail(t)))

\* the automatic detection of parse_input
AutoDetect(t) ==
    IF startswith(t, "[") THEN parse_list(t)
    ELSE IF IsIntegerText(t) THEN parse_int(t)
    ELSE IF lower(t) \in {<<"t", "r", "u", "e">>, <<"f", "a", "l", "s", "e">>}
         THEN parse_bool(t)
    ELSE parse_string(t)

TypeHints ==
    {"list", "int", "float", "string", "bool", "linked_list", "tree", "auto"}

\* parse_input after s = s.strip()
Dispatch(t, hint) ==
    IF hint = "list" THEN parse_list(t)
    ELSE IF hint = "int" THEN parse_int(t)
    ELSE IF hint = "float" THEN parse_float(t)
    ELSE IF hint = "string" THEN parse_string(t)
    ELSE IF hint = "bool" THEN parse_bool(t)
    ELSE IF hint = "linked_list" THEN parse_linked_list(t)
    ELSE IF hint = "tree" THEN parse_tree(t)
    ELSE AutoDetect(t)

parse_input(text, hint) == Dispatch(strip(text), hint)

(***************************************************************************)
(* parse_leetcode_input                                                    *)
(***************************************************************************)
\* a plausible slip: every comma separates, whatever the bracket depth
ScanCharAnyComma(st, char) ==
    IF char = "["
    THEN [st EXCEPT !.bracket_depth = @ + 1, !.current_param = Append(@, char)]
    ELSE IF char = "]"
    THEN [st EXCEPT !.bracket_depth = @ - 1, !.current_param = Append(@, char)]
    ELSE IF char = ","
    THEN [st EXCEPT !.params = Append(@, strip(st.current_param)),
                    !.current_param = <<>>]
    ELSE [st EXCEPT !.current_param = Append(@, char)]

\* the body of `for char in s`
ScanChar(st, char) ==
    IF char = "["
    THEN [st EXCEPT !.bracket_depth = @ + 1, !.current_param = Append(@, char)]
    ELSE IF char = "]"
    THEN [st EXCEPT !.bracket_depth = @ - 1, !.current_param = Append(@, char)]
    ELSE IF char = "," /\ st.bracket_depth = 0
    THEN [st EXCEPT !.params = Append(@, strip(st.current_param)),
                    !.current_param = <<>>]
    ELSE [st EXCEPT !.current_param = Append(@, char)]

\* param.split('=', 1)[1].strip() if '=' in param else param.strip()
ValuePart(param) ==
    LET eq == FirstIndex(param, "=")
    IN IF eq # 0 THEN strip(SubSeq(param, eq + 1, Len(param)))
       ELSE strip(param)

\* the list of the values, or the first exception among them
FirstRaiseOrList(vals) ==
    IF \A k \in 1..Len(vals) : vals[k][1] # "raise" THEN ListV(vals)
    ELSE vals[CHOOSE k \in 1..Len(vals) :
                /\ vals[k][1] = "raise"
                /\ \A m \in 1..(k - 1) : vals[m][1] # "raise"]

\* the loop `for param in params: result.append(parse_input(value_part))`;
\* the first call that raises ends it
ParseParams(ps) ==
    FirstRaiseOrList([k \in 1..Len(ps) |-> parse_input(ValuePart(ps[k]), "auto")])

\* entry: s = s.strip(); `if not s: return []`
PLI_Enter ==
    /\ pc = "pli_start"
    /\ s' = strip(s)
    /\ IF strip(s) = <<>>
       THEN /\ result' = ListV(<<>>)
            /\ pc' = "pli_done"
            /\ UNCHANGED <<params, current_param, bracket_depth, i>>
       ELSE /\ params' = <<>>
            /\ current_param' = <<>>
            /\ bracket_depth' = 0
            /\ i' = 0
            /\ pc' = "pli_scan"
            /\ UNCHANGED result
    /\ UNCHANGED <<arr, heap, head, root, current, queue, j, type_hint, nums,
                   target, value>>

\* one iteration of `for char in s`; i is the iterator's position in s
PLI_Char ==
    /\ pc = "pli_scan"
    /\ i < Len(s)
    /\ LET st == ScanChar([params |-> params, current_param |-> current_param,
                           bracket_depth |-> bracket_depth], At(s, i))
       IN /\ params' = st.params
          /\ current_param' = st.current_param
          /\ bracket_depth' = st.bracket_depth
    /\ i' = i + 1
    /\ UNCHANGED <<pc, s, result, arr, heap, head, root, current, queue, j,
                   type_hint, nums, target, value>>

\* after the loop: `if current_param.strip(): params.append(...)`
PLI_LastParam ==
    /\ pc = "pli_scan"
    /\ ~(i < Len(s))
    /\ params' = IF strip(current_param) # <<>>
                 THEN Append(params, strip(current_param))
                 ELSE params
    /\ pc' = "pli_parse"
    /\ UNCHANGED <<s, i, current_param, bracket_depth, result, arr, heap, head,
                   root, current, queue, j, type_hint, nums, target, value>>

\* the loop over params and `return result`
PLI_Parse ==
    /\ pc = "pli_parse"
    /\ result' = ParseParams(params)
    /\ pc' = "pli_done"
    /\ UNCHANGED <<s, i, params, current_param, bracket_depth, arr, heap, head,
                   root, current, queue, j, type_hint, nums, target, value>>

LineChars == {"[", "]", ",", "=", " ", "1", "U+00B2"}

\* "nums = [2,7,11,15], target = 9"
ExampleLine ==
    <<"n", "u", "m", "s", " ", "=", " ", "[", "2", ",", "7", ",", "1", "1", ",",
      "1", "5", "]", ",", " ", "t", "a", "r", "g", "e", "t", " ", "=", " ", "9">>

InitLeetcode ==
    /\ pc = "pli_start"
    /\ s \in SeqsUpTo(LineChars, MaxLineLen) \cup {ExampleLine}
    /\ arr = <<>> /\ heap = <<>> /\ head = 0 /\ root = 0 /\ current = 0
    /\ queue = <<>> /\ i = 0 /\ j = 0 /\ result = <<>>
    /\ type_hint = "auto" /\ params = <<>>
    /\ current_param = <<>> /\ bracket_depth = 0
    /\ nums = <<>> /\ target = 0 /\ value = None

NextLeetcode ==
    \/ PLI_Enter
    \/ PLI_Char
    \/ PLI_LastParam
    \/ PLI_Parse

SpecLeetcode == InitLeetcode /\ [][NextLeetcode]_vars

\* the number of c among the first n characters of cs
CountIn(cs, c, n) == Cardinality({k \in 1..n : cs[k] = c})

\* "[" seen minus "]" seen in the first n characters
Depth(cs, n) == CountIn(cs, "[", n) - CountIn(cs, "]", n)

\* the commas that stand at depth zero
Separators(cs) == {p \in 1..Len(cs) : cs[p] = "," /\ Depth(cs, p - 1) = 0}

\* the k-th separator, 0 for k = 0 and Len(cs) + 1 past the last
Separator(cs, k) ==
    IF k = 0 THEN 0
    ELSE IF k > Cardinality(Separators(cs)) THEN Len(cs) + 1
    ELSE CHOOSE p \in Separators(cs) :
            Cardinality({q \in Separators(cs) : q < p}) = k - 1

\* the text between the (k-1)-th and the k-th separator
Piece(cs, k) == SubSeq(cs, Separator(cs, k - 1) + 1, Separator(cs, k) - 1)

\* one parameter per piece, each trimmed; a blank last piece is none
Parameters(cs) ==
    LET m == Cardinality(Separators(cs))
    IN [k \in 1..(IF strip(Piece(cs, m + 1)) = <<>> THEN m ELSE m + 1) |->
            strip(Piece(cs, k))]

C4_Scanning ==
    pc = "pli_scan" =>
        LET seen == SubSeq(s, 1, i)
            m == Cardinality(Separators(seen))
        IN /\ bracket_depth = Depth(s, i)
           /\ params = [k \in 1..m |-> strip(Piece(seen, k))]
           /\ current_param = Piece(seen, m + 1)

C4_Returned ==
    pc = "pli_done" =>
        /\ s # <<>> => params = Parameters(s)
        /\ result[1] \in {"list", "raise"}
        /\ result[1] = "list" =>
            /\ Len(result[2]) = Len(Parameters(s))
            /\ \A k \in 1..Len(result[2]) :
                result[2][k] = parse_input(ValuePart(Parameters(s)[k]), "auto")
        /\ result[1] = "raise" =>
            \E k \in 1..Len(Parameters(s)) :
                parse_input(ValuePart(Parameters(s)[k]), "auto") = result
        /\ s = ExampleLine =>
            result = ListV(<<ListV(<<IntV(2), IntV(7), IntV(11), IntV(15)>>),
                             IntV(9)>>)

\* C4: scanning left to right with a counter raised on "[" and lowered on
\* "]", a comma ends the current parameter exactly when the counter is zero;
\* the call returns one parsed value per parameter, in the order of the line,
\* and "nums = [2,7,11,15], target = 9" gives [[2,7,11,15], 9].
C4_ParseLeetcodeInput == C4_Scanning /\ C4_Returned

C4_Witness ==
    /\ pc = "pli_done"
    /\ s = ExampleLine
    /\ Len(params) = 2
    /\ result = ListV(<<ListV(<<IntV(2), IntV(7), IntV(11), IntV(15)>>), IntV(9)>>)

(***************************************************************************)
(* parse_string, parse_list and parse_input as calls on a text             *)
(***************************************************************************)
InitText(start, texts) ==
    /\ pc = start
    /\ s \in texts
    /\ arr = <<>> /\ heap = <<>> /\ head = 0 /\ root = 0 /\ current = 0
    /\ queue = <<>> /\ i = 0 /\ j = 0 /\ result = None
    /\ type_hint = "auto" /\ params = <<>>
    /\ current_param = <<>> /\ bracket_depth = 0
    /\ nums = <<>> /\ target = 0 /\ value = None

StringChars == {"\"", "'", " ", "x"}

InitParseString == InitText("ps_start", SeqsUpTo(StringChars, MaxTextLen))

\* result = parse_string(s)
CallParseString ==
    /\ pc = "ps_start"
    /\ result' = parse_string(s)
    /\ pc' = "ps_done"
    /\ UNCHANGED <<s, arr, heap, head, root, current, queue, i, j, type_hint,
                   params, current_param, bracket_depth, nums, target, value>>

SpecParseString == InitParseString /\ [][CallParseString]_vars

\* the text is an opening quote, any characters and a closing quote of the
\* same kind
Quoted(cs) ==
    /\ Len(cs) >= 2
    /\ Head(cs) \in {"\"", "'"}
    /\ Last(cs) = Head(cs)

\* C6: parse_string gives the trimmed text without its outer pair of quotes
\* when it is wrapped in a matching pair of double or of single quotes, and
\* the trimmed text unchanged in every other case, a lone quote included.
C6_ParseString ==
    pc = "ps_done" =>
        result = StrV(IF Quoted(strip(s)) THEN SubSeq(strip(s), 2, Len(strip(s)) - 1)
                      ELSE strip(s))

\* the same, but for the text that is one quote character
C6_ExceptLoneQuote ==
    (pc = "ps_done" /\ strip(s) \notin {<<"\"">>, <<"'">>}) =>
        result = StrV(IF Quoted(strip(s)) THEN SubSeq(strip(s), 2, Len(strip(s)) - 1)
                      ELSE strip(s))

ListChars == {"[", "]", ",", " ", "1"}

\* "[1,2,3]", "1, 2, 3", "5", "true"
ListExamples ==
    {<<"[", "1", ",", "2", ",", "3", "]">>,
     <<"1", ",", " ", "2", ",", " ", "3">>,
     <<"5">>,
     <<"t", "r", "u", "e">>}

InitParseList ==
    InitText("pl_start", SeqsUpTo(ListChars, MaxTextLen) \cup ListExamples)

\* result = parse_list(s)
CallParseList ==
    /\ pc = "pl_start"
    /\ result' = parse_list(s)
    /\ pc' = "pl_done"
    /\ UNCHANGED <<s, arr, heap, head, root, current, queue, i, j, type_hint,
                   params, current_param, bracket_depth, nums, target, value>>

SpecParseList == InitParseList /\ [][CallParseList]_vars

\* C7: parse_list gives a sequence for every text: the empty one for a blank
\* text, the decoded one for JSON text, the trimmed comma-separated tokens as
\* strings otherwise; never anything but a sequence, a bare JSON scalar
\* included.
C7_ParseList ==
    pc = "pl_done" =>
        /\ result[1] = "list"
        /\ strip(s) = <<>> => result = ListV(<<>>)
        /\ s = <<"[", "1", ",", "2", ",", "3", "]">> =>
               result = ListV(<<IntV(1), IntV(2), IntV(3)>>)
        /\ s = <<"1", ",", " ", "2", ",", " ", "3">> =>
               result = ListV(<<StrV(<<"1">>), StrV(<<"2">>), StrV(<<"3">>)>>)
        /\ (strip(s) # <<>> /\ ~json_loads(strip(s)).ok) =>
               result = CommaSeparated(strip(s))

\* the same, but for the texts that decode to something that is no sequence
C7_ExceptScalars ==
    (pc = "pl_done" /\ ~(json_loads(strip(s)).ok
                         /\ json_loads(strip(s)).val[1] # "list")) =>
        /\ result[1] = "list"
        /\ strip(s) = <<>> => result = ListV(<<>>)
        /\ s = <<"[", "1", ",", "2", ",", "3", "]">> =>
               result = ListV(<<IntV(1), IntV(2), IntV(3)>>)
        /\ s = <<"1", ",", " ", "2", ",", " ", "3">> =>
               result = ListV(<<StrV(<<"1">>), StrV(<<"2">>), StrV(<<"3">>)>>)
        /\ (strip(s) # <<>> /\ ~json_loads(strip(s)).ok) =>
               result = CommaSeparated(strip(s))

InputChars == {"[", "]", "-", "1", "U+00B2", "x", " "}

\* "true", "False", "1.5", "[1.5]"
InputExamples ==
    {<<"t", "r", "u", "e">>,
     <<"F", "a", "l", "s", "e">>,
     <<"1", ".", "5">>,
     <<"[", "1", ".", "5", "]">>}

InitParseInput ==
    InitText("pi_start", SeqsUpTo(InputChars, MaxTextLen) \cup InputExamples)

\* result = parse_input(s, type_hint)
CallParseInput ==
    /\ pc = "pi_start"
    /\ \E hint \in TypeHints :
        /\ type_hint' = hint
        /\ result' = parse_input(s, hint)
    /\ pc' = "pi_done"
    /\ UNCHANGED <<s, arr, heap, head, root, current, queue, i, j, params,
                   current_param, bracket_depth, nums, target, value>>

SpecParseInput == InitParseInput /\ [][CallParseInput]_vars

\* decimal digits only, or "-" and then at least one decimal digit
LooksInteger(cs) ==
    LET body == IF startswith(cs, "-") THEN Tail(cs) ELSE cs
    IN body # <<>> /\ \A k \in 1..Len(body) : IsDecimal(body[k])

Classified(cs, res) ==
    IF startswith(cs, "[") THEN res[1] = "list"
    ELSE IF LooksInteger(cs)
         THEN res = IntV(IF startswith(cs, "-") THEN 0 - DecimalValue(Tail(cs))
                         ELSE DecimalValue(cs))
    ELSE IF lower(cs) = <<"t", "r", "u", "e">> THEN res = BoolV(TRUE)
    ELSE IF lower(cs) = <<"f", "a", "l", "s", "e">> THEN res = BoolV(FALSE)
    ELSE res[1] = "str"

\* C5: with type_hint 'auto' parse_input classifies every trimmed text in
\* this order: "[" first -> list; digits only, or "-" and digits -> integer;
\* true/false in any case -> boolean; anything else -> string.  It never
\* gives a float, a linked-list node or a tree node.
C5_ParseInputAuto ==
    (pc = "pi_done" /\ type_hint = "auto") =>
        /\ Classified(strip(s), result)
        /\ result[1] \notin {"float", "ListNode", "TreeNode"}

\* the same, but for the texts of digits that are not all decimal
C5_ExceptNonDecimalDigits ==
    (pc = "pi_done" /\ type_hint = "auto"
        /\ ~(IsIntegerText(strip(s)) /\ ~LooksInteger(strip(s)))) =>
        /\ Classified(strip(s), result)
        /\ result[1] \notin {"float", "ListNode", "TreeNode"}

(***************************************************************************)
(* format_output                                                           *)
(***************************************************************************)
\* the decimal digits of n >= 0
RECURSIVE DecimalText(_)
DecimalText(n) ==
    IF n < 10 THEN <<DecimalDigits[n + 1]>>
    ELSE DecimalText(n \div 10) \o <<DecimalDigits[(n % 10) + 1]>>

\* str(n) of an int
IntText(n) == IF n < 0 THEN <<"-">> \o DecimalText(0 - n) ELSE DecimalText(n)

\* json's escape of one character of a str (ensure_ascii)
Escaped(c) ==
    CASE c = "\"" -> <<"\\", "\"">>
      [] c = "\\" -> <<"\\", "\\">>
      [] c = "\n" -> <<"\\", "n">>
      [] c = "\r" -> <<"\\", "r">>
      [] c = "\t" -> <<"\\", "t">>
      [] c = "U+00B2" -> <<"\\", "u", "0", "0", "b", "2">>
      [] OTHER -> <<c>>

RECURSIVE Flatten(_)
Flatten(parts) ==
    IF parts = <<>> THEN <<>> ELSE Head(parts) \o Flatten(Tail(parts))

\* sep.join(parts)
RECURSIVE join(_, _)
join(sep, parts) ==
    IF parts = <<>> THEN <<>>
    ELSE IF Len(parts) = 1 THEN Head(parts)
    ELSE Head(parts) \o sep \o join(sep, Tail(parts))

\* json.dumps(v) with its default separators, ", " between items (floats are
\* not among the values formatted here)
RECURSIVE json_dumps(_)
json_dumps(v) ==
    CASE v[1] = "null" -> <<"n", "u", "l", "l">>
      [] v[1] = "bool" -> IF v[2] THEN <<"t", "r", "u", "e">>
                          ELSE <<"f", "a", "l", "s", "e">>
      [] v[1] = "int" -> IntText(v[2])
      [] v[1] = "str" ->
            <<"\"">> \o Flatten([k \in 1..Len(v[2]) |-> Escaped(v[2][k])])
                     \o <<"\"">>
      [] v[1] = "list" ->
            <<"[">> \o join(<<",", " ">>,
                            [k \in 1..Len(v[2]) |-> json_dumps(v[2][k])])
                    \o <<"]">>

format_output(v) ==
    IF v[1] = "ListNode" THEN StrV(json_dumps(ListV(linked_list_to_list(v))))
    ELSE IF v[1] = "TreeNode" THEN StrV(json_dumps(ListV(tree_to_list(v))))
    ELSE IF v[1] = "bool"
         THEN StrV(IF v[2] THEN <<"t", "r", "u", "e">>
                   ELSE <<"f", "a", "l", "s", "e">>)
    ELSE IF v[1] = "list" THEN StrV(json_dumps(v))
    ELSE IF v = None THEN StrV(<<"n", "u", "l", "l">>)
    ELSE IF v[1] = "int" THEN StrV(IntText(v[2]))
    ELSE StrV(v[2])

FormatInts == {IntV(-1), IntV(0), IntV(1), IntV(2), IntV(3), IntV(10)}

\* the values formatted: sequences of integers, the linked lists and trees
\* made of them, and scalars
FormatValues ==
    LET lists == SeqsUpTo(FormatInts, MaxListLen)
    IN {ListV(xs) : xs \in lists}
       \cup {list_to_linked_list(xs) : xs \in lists}
       \cup {list_to_tree(xs) : xs \in SeqsUpTo(TreeVals, MaxTreeLen)}
       \cup FormatInts
       \cup {BoolV(TRUE), BoolV(FALSE), None, StrV(<<"x", "\"">>)}
       \cup {ListV(<<ListV(<<IntV(1), IntV(2)>>), None, BoolV(TRUE)>>)}

InitFormat ==
    /\ pc = "fo_start"
    /\ value \in FormatValues
    /\ s = <<>>
    /\ arr = <<>> /\ heap = <<>> /\ head = 0 /\ root = 0 /\ current = 0
    /\ queue = <<>> /\ i = 0 /\ j = 0 /\ result = None
    /\ type_hint = "auto" /\ params = <<>>
    /\ current_param = <<>> /\ bracket_depth = 0
    /\ nums = <<>> /\ target = 0

\* result = format_output(value)
CallFormatOutput ==
    /\ pc = "fo_start"
    /\ result' = format_output(value)
    /\ pc' = "fo_done"
    /\ UNCHANGED <<s, arr, heap, head, root, current, queue, i, j, type_hint,
                   params, current_param, bracket_depth, nums, target, value>>

SpecFormat == InitFormat /\ [][CallFormatOutput]_vars

IsIntList(v) == v[1] = "list" /\ \A k \in 1..Len(v[2]) : v[2][k][1] = "int"

\* C3: format_output of a sequence of integers is "[", the decimal elements
\* with a single comma and nothing else between them, and "]":
\* [1,2,3] gives the 7 characters "[1,2,3]" and [0,1] gives "[0,1]".
C3_FormatOutput ==
    (pc = "fo_done" /\ IsIntList(value)) =>
        /\ result = StrV(<<"[">>
                         \o join(<<",">>, [k \in 1..Len(value[2]) |->
                                              IntText(value[2][k][2])])
                         \o <<"]">>)
        /\ value = ListV(<<IntV(1), IntV(2), IntV(3)>>) =>
               result = StrV(<<"[", "1", ",", "2", ",", "3", "]">>)
        /\ value = ListV(<<IntV(0), IntV(1)>>) =>
               result = StrV(<<"[", "0", ",", "1", "]">>)

\* what the code gives: a comma and a space between the elements
C3_CommaSpace ==
    (pc = "fo_done" /\ IsIntList(value)) =>
        result = StrV(<<"[">>
                      \o join(<<",", " ">>, [k \in 1..Len(value[2]) |->
                                               IntText(value[2][k][2])])
                      \o <<"]">>)

(***************************************************************************)
(* Solution.twoSum                                                         *)
(***************************************************************************)
\* a plausible slip: range(i, len(nums)) pairs an index with itself
InnerStartSame(k) == k

\* the first j of `for j in range(i + 1, len(nums))`
InnerStart(k) == k + 1

\* `for i in range(len(nums))`: the next i starts its inner loop
TS_Outer ==
    /\ pc = "ts_outer"
    /\ i < Len(nums)
    /\ j' = InnerStart(i)
    /\ pc' = "ts_inner"
    /\ UNCHANGED <<nums, target, i, result, s, arr, heap, head, root, current,
                   queue, type_hint, params, current_param, bracket_depth,
                   value>>

\* the outer loop is exhausted: `return []`
TS_NotFound ==
    /\ pc = "ts_outer"
    /\ ~(i < Len(nums))
    /\ result' = ListV(<<>>)
    /\ pc' = "ts_done"
    /\ UNCHANGED <<nums, target, i, j, s, arr, heap, head, root, current,
                   queue, type_hint, params, current_param, bracket_depth,
                   value>>

\* `if nums[i] + nums[j] == target: return [i, j]`
TS_Found ==
    /\ pc = "ts_inner"
    /\ j < Len(nums)
    /\ At(nums, i) + At(nums, j) = target
    /\ result' = ListV(<<IntV(i), IntV(j)>>)
    /\ pc' = "ts_done"
    /\ UNCHANGED <<nums, target, i, j, s, arr, heap, head, root, current,
                   queue, type_hint, params, current_param, bracket_depth,
                   value>>

\* the pair does not add up: the next j
TS_Inner ==
    /\ pc = "ts_inner"
    /\ j < Len(nums)
    /\ At(nums, i) + At(nums, j) # target
    /\ j' = j + 1
    /\ UNCHANGED <<pc, nums, target, i, result, s, arr, heap, head, root,
                   current, queue, type_hint, params, current_param,
                   bracket_depth, value>>

\* the inner loop is exhausted: the next i
TS_InnerDone ==
    /\ pc = "ts_inner"
    /\ ~(j < Len(nums))
    /\ i' = i + 1
    /\ pc' = "ts_outer"
    /\ UNCHANGED <<nums, target, j, result, s, arr, heap, head, root, current,
                   queue, type_hint, params, current_param, bracket_depth,
                   value>>

NumVals == -1..2
TargetVals == -2..4

InitTwoSum ==
    /\ pc = "ts_outer"
    /\ \/ nums \in SeqsUpTo(NumVals, MaxNums) /\ target \in TargetVals
       \/ nums = <<2, 7, 11, 15>> /\ target = 9
    /\ i = 0 /\ j = 0 /\ result = None
    /\ s = <<>>
    /\ arr = <<>> /\ heap = <<>> /\ head = 0 /\ root = 0 /\ current = 0
    /\ queue = <<>>
    /\ type_hint = "auto" /\ params = <<>>
    /\ current_param = <<>> /\ bracket_depth = 0
    /\ value = None

NextTwoSum ==
    \/ TS_Outer
    \/ TS_NotFound
    \/ TS_Found
    \/ TS_Inner
    \/ TS_InnerDone

SpecTwoSum == InitTwoSum /\ [][NextTwoSum]_vars

\* the pairs of indices a < b whose elements add up to t
Pairs(xs, t) ==
    {pr \in (0..(Len(xs) - 1)) \X (0..(Len(xs) - 1)) :
        pr[1] < pr[2] /\ At(xs, pr[1]) + At(xs, pr[2]) = t}

\* the pair with the smallest first index and then the smallest second
FirstPair(xs, t) ==
    CHOOSE pr \in Pairs(xs, t) :
        \A other \in Pairs(xs, t) :
            pr[1] < other[1] \/ (pr[1] = other[1] /\ pr[2] <= other[2])

C10_Returned ==
    pc = "ts_done" =>
        /\ Pairs(nums, target) = {} => result = ListV(<<>>)
        /\ Pairs(nums, target) # {} =>
            result = ListV(<<IntV(FirstPair(nums, target)[1]),
                             IntV(FirstPair(nums, target)[2])>>)
        /\ (nums = <<2, 7, 11, 15>> /\ target = 9) =>
            result = ListV(<<IntV(0), IntV(1)>>)

\* C10: twoSum returns [i, j] for the smallest i and then the smallest j with
\* i < j and nums[i] + nums[j] = target, never an index paired with itself,
\* and [] when there is no such pair; nums is left as it was, and
\* [2,7,11,15] with target 9 gives [0,1].
C10_TwoSum == [][nums' = nums]_vars /\ []C10_Returned

C10_Witness ==
    /\ pc = "ts_done"
    /\ nums = <<2, 7, 11, 15>> /\ target = 9
    /\ result = ListV(<<IntV(0), IntV(1)>>)

(***************************************************************************)
(* Every operation, from any of its starting states                        *)
(***************************************************************************)
Init ==
    \/ InitLinkedList
    \/ InitTree
    \/ InitTreeToList
    \/ InitLeetcode
    \/ InitParseString
    \/ InitParseList
    \/ InitParseInput
    \/ InitFormat
    \/ InitTwoSum

Next ==
    \/ NextLinkedList
    \/ NextTree
    \/ NextLeetcode
    \/ CallParseString
    \/ CallParseList
    \/ CallParseInput
    \/ CallFormatOutput
    \/ NextTwoSum

Spec == Init /\ [][Next]_vars /\ WF_vars(Next)

====
